---- MODULE Spec2Model ----
(***************************************************************************)
(* Model of app/app.py: the ingestion pipeline (load_and_combine_data,     *)
(* optimize_memory_usage, handle_missing_values), the Streamlit script     *)
(* main() with its reruns, and the remote call predict_with_groq.          *)
(*                                                                         *)
(* A table (pandas DataFrame) is a record                                  *)
(*   [columns |-> sequence of column names,                                *)
(*    dtypes  |-> sequence of dtype names, one per column,                 *)
(*    rows    |-> sequence of [idx, src, cells]]                           *)
(* where cells is positional (one cell per column), idx is the row's index *)
(* label and src = <<file number, row number in the file>> is the place    *)
(* the row was read from (history, not program state).                     *)
(* A column name is a sequence of pieces, the piece " " being whitespace,  *)
(* so that str.strip() is computed and not assumed.                        *)
(***************************************************************************)
EXTENDS Integers, Sequences, FiniteSets, TLC

\* ------------------------------------------------------------------ bounds
\* Rows in all uploaded files together.
MaxRows == 3
\* Files in one upload.
MaxFiles == 2
\* pd.read_csv(chunksize=10000), scaled down so that a file of MaxRows rows
\* is read in more than one chunk.
ChunkSize == 2

\* ------------------------------------------------------------------- cells
Num(n) == [k |-> "num", v |-> n, s |-> ""]
Str(t) == [k |-> "str", v |-> 0, s |-> t]
NaN    == [k |-> "nan", v |-> 0, s |-> ""]
Inf    == [k |-> "inf", v |-> 0, s |-> ""]
NegInf == [k |-> "ninf", v |-> 0, s |-> ""]

IsMissing(c) == c.k = "nan"
IsInfinite(c) == c.k \in {"inf", "ninf"}

\* ------------------------------------------------------------ column names
SP == " "
Name(t) == <<t>>
LABEL == Name("Label")

RECURSIVE LStrip(_)
LStrip(n) == IF n # <<>> /\ Head(n) = SP THEN LStrip(Tail(n)) ELSE n

RECURSIVE RStrip(_)
RStrip(n) ==
    IF n # <<>> /\ n[Len(n)] = SP THEN RStrip(SubSeq(n, 1, Len(n) - 1)) ELSE n

\* str.strip() of one column name
Strip(n) == RStrip(LStrip(n))

\* ------------------------------------------------------------ table access
Range(s) == {s[i] : i \in DOMAIN s}
HasColumn(df, name) == name \in Range(df.columns)
\* position of the first column called name
ColPos(df, name) == CHOOSE i \in DOMAIN df.columns :
    /\ df.columns[i] = name
    /\ \A j \in 1..(i - 1) : df.columns[j] # name
At(df, r, name) == df.rows[r].cells[ColPos(df, name)]
ColumnCells(df, name) == [r \in DOMAIN df.rows |-> At(df, r, name)]

RECURSIVE PickFrom(_, _, _)
\* the elements of s at the positions >= i that are in keep, in order
PickFrom(s, keep, i) ==
    IF i > Len(s) THEN <<>>
    ELSE (IF i \in keep THEN <<s[i]>> ELSE <<>>) \o PickFrom(s, keep, i + 1)

Pick(s, keep) == PickFrom(s, keep, 1)

Min(a, b) == IF a < b THEN a ELSE b

\* ---------------------------------------------------------------- read_csv
\* dtype pandas infers for a column of a chunk from its cells
InferDtype(cells) ==
    IF \E i \in DOMAIN cells : cells[i].k = "str" THEN "object"
    ELSE IF \A i \in DOMAIN cells : cells[i].k = "num" THEN "int64"
    ELSE "float64"

IsNumeric(dtype) == dtype \in {"int64", "float64", "float32"}

\* One chunk of file number f: rows lo..hi of the file, index labels lo-1..hi-1.
ReadChunk(file, f, lo, hi) ==
    [columns |-> file.columns,
     dtypes  |-> [c \in DOMAIN file.columns |->
                    InferDtype([r \in 1..(hi - lo + 1) |-> file.rows[lo + r - 1][c]])],
     rows    |-> [r \in 1..(hi - lo + 1) |->
                    [idx |-> lo + r - 2, src |-> <<f, lo + r - 1>>,
                     cells |-> file.rows[lo + r - 1]]]]

RECURSIVE ChunksFrom(_, _, _)
ChunksFrom(file, f, lo) ==
    IF lo > Len(file.rows) THEN <<>>
    ELSE LET hi == Min(lo + ChunkSize - 1, Len(file.rows))
         IN  <<ReadChunk(file, f, lo, hi)>> \o ChunksFrom(file, f, hi + 1)

\* pd.read_csv(uploaded_file, chunksize=...): the chunks in read order
read_csv(file, f) == ChunksFrom(file, f, 1)

\* ---------------------------------------------------- handle_missing_values
\* data.dropna(subset=['Label'], inplace=True): index labels are kept
dropna_Label(data) ==
    LET keep == {r \in DOMAIN data.rows : ~IsMissing(At(data, r, LABEL))}
    IN  [data EXCEPT !.rows = Pick(data.rows, keep)]

\* replace_inf with -np.inf left out of the list of values to replace
replace_inf_positive_only(data) ==
    [data EXCEPT !.rows = [r \in DOMAIN data.rows |->
        [data.rows[r] EXCEPT !.cells = [c \in DOMAIN data.columns |->
            IF data.rows[r].cells[c].k = "inf" THEN NaN
            ELSE data.rows[r].cells[c]]]]]

\* data.replace([np.inf, -np.inf], np.nan, inplace=True): every column
replace_inf(data) ==
    [data EXCEPT !.rows = [r \in DOMAIN data.rows |->
        [data.rows[r] EXCEPT !.cells = [c \in DOMAIN data.columns |->
            IF IsInfinite(data.rows[r].cells[c]) THEN NaN
            ELSE data.rows[r].cells[c]]]]]

RECURSIVE InsertSorted(_, _)
InsertSorted(s, v) ==
    IF s = <<>> THEN <<v>>
    ELSE IF v <= Head(s) THEN <<v>> \o s
    ELSE <<Head(s)>> \o InsertSorted(Tail(s), v)

RECURSIVE SortedValues(_)
\* the numbers among cells, ascending
SortedValues(cells) ==
    IF cells = <<>> THEN <<>>
    ELSE IF Head(cells).k = "num"
         THEN InsertSorted(SortedValues(Tail(cells)), Head(cells).v)
         ELSE SortedValues(Tail(cells))

\* Series.median(): skips missing entries; NaN when nothing is left; the mean
\* of the middle pair for an even count (the inputs are odd numbers, so the
\* mean of two of them is a whole number).
median(cells) ==
    LET vs == SortedValues(cells)
        n  == Len(vs)
    IN  IF n = 0 THEN NaN
        ELSE IF n % 2 = 1 THEN Num(vs[(n + 1) \div 2])
        ELSE Num((vs[n \div 2] + vs[n \div 2 + 1]) \div 2)

\* columns chosen by data.select_dtypes(include=['int', 'float'])
select_numeric(data) == {c \in DOMAIN data.columns : IsNumeric(data.dtypes[c])}

\* for col in numeric columns: data[col].fillna(data[col].median(), inplace=True)
\* (the in-place fill through data[col] reaches data, as it does in the pandas
\* releases the script was written for)
fillna_median(data) ==
    LET med == [c \in DOMAIN data.columns |->
                  median([r \in DOMAIN data.rows |-> data.rows[r].cells[c]])]
    IN  [data EXCEPT !.rows = [r \in DOMAIN data.rows |->
            [data.rows[r] EXCEPT !.cells = [c \in DOMAIN data.columns |->
                IF c \in select_numeric(data) /\ IsMissing(data.rows[r].cells[c])
                THEN med[c] ELSE data.rows[r].cells[c]]]]]

\* the branch of line 16: TRUE when st.error is called
label_missing(data) == ~HasColumn(data, LABEL)

check_label(data) == IF label_missing(data) THEN data ELSE dropna_Label(data)

handle_missing_values(data) == fillna_median(replace_inf(check_label(data)))

\* ---------------------------------------------------- optimize_memory_usage
\* pd.to_numeric(data[col], downcast='float') for the numeric columns: a
\* float64 column becomes float32 (the model's values are exact in float32),
\* an int64 column is left as it is.
downcast_float(data) ==
    [data EXCEPT !.dtypes = [c \in DOMAIN data.columns |->
        IF data.dtypes[c] = "float64" THEN "float32" ELSE data.dtypes[c]]]

\* data[col].astype('category') for the object columns
to_category(data) ==
    [data EXCEPT !.dtypes = [c \in DOMAIN data.columns |->
        IF data.dtypes[c] = "object" THEN "category" ELSE data.dtypes[c]]]

optimize_memory_usage(data) == to_category(downcast_float(handle_missing_values(data)))

\* ----------------------------------------------------- load_and_combine_data
\* chunk.columns = chunk.columns.str.strip()
strip_columns(chunk) ==
    [chunk EXCEPT !.columns = [c \in DOMAIN chunk.columns |-> Strip(chunk.columns[c])]]

\* chunk.rename(columns={old: new}, inplace=True)
rename(chunk, old, new) ==
    [chunk EXCEPT !.columns = [c \in DOMAIN chunk.columns |->
        IF chunk.columns[c] = old THEN new ELSE chunk.columns[c]]]

\* chunk['Label'] = 'normal': overwrites the column when there is one, appends
\* it otherwise
assign_Label_normal(chunk) ==
    IF HasColumn(chunk, LABEL)
    THEN LET p == ColPos(chunk, LABEL)
         IN  [chunk EXCEPT
                !.dtypes = [chunk.dtypes EXCEPT ![p] = "object"],
                !.rows = [r \in DOMAIN chunk.rows |->
                    [chunk.rows[r] EXCEPT !.cells[p] = Str("normal")]]]
    ELSE [chunk EXCEPT
            !.columns = Append(chunk.columns, LABEL),
            !.dtypes = Append(chunk.dtypes, "object"),
            !.rows = [r \in DOMAIN chunk.rows |->
                [chunk.rows[r] EXCEPT !.cells = Append(chunk.rows[r].cells, Str("normal"))]]]

\* lines 47-52: which column becomes the label
normalize_label(chunk) ==
    IF HasColumn(chunk, Name("label")) THEN rename(chunk, Name("label"), LABEL)
    ELSE IF HasColumn(chunk, Name("Class")) THEN rename(chunk, Name("Class"), LABEL)
    ELSE assign_Label_normal(chunk)

\* the body of the inner loop, lines 45-54
process_chunk(chunk) == optimize_memory_usage(normalize_label(strip_columns(chunk)))

\* the inner loop over one uploaded file (number f in the upload)
process_file(file, f) ==
    LET chunks == read_csv(file, f)
    IN  [i \in DOMAIN chunks |-> process_chunk(chunks[i])]

RECURSIVE UnionColumns(_, _)
\* the columns of the frames in order of first appearance, after those of acc
UnionColumns(frames, acc) ==
    IF frames = <<>> THEN acc
    ELSE LET new == Pick(Head(frames).columns,
                         {c \in DOMAIN Head(frames).columns :
                             /\ Head(frames).columns[c] \notin Range(acc)
                             /\ \A d \in 1..(c - 1) :
                                   Head(frames).columns[d] # Head(frames).columns[c]})
         IN  UnionColumns(Tail(frames), acc \o new)

\* dtype of a column of the concatenation
ConcatDtype(frames, name) ==
    LET have == {i \in DOMAIN frames : HasColumn(frames[i], name)}
        dts  == {frames[i].dtypes[ColPos(frames[i], name)] : i \in have}
    IN  IF \E d \in dts : ~IsNumeric(d) THEN "object"
        ELSE IF have = DOMAIN frames /\ Cardinality(dts) = 1 THEN CHOOSE d \in dts : TRUE
        ELSE "float64"

\* a row of frame re-laid on the columns cols: NaN where the frame has no such column
Reindex(frame, row, cols) ==
    [row EXCEPT !.cells = [c \in DOMAIN cols |->
        IF HasColumn(frame, cols[c]) THEN row.cells[ColPos(frame, cols[c])] ELSE NaN]]

RECURSIVE ConcatRows(_, _)
ConcatRows(frames, cols) ==
    IF frames = <<>> THEN <<>>
    ELSE [r \in DOMAIN Head(frames).rows |-> Reindex(Head(frames), Head(frames).rows[r], cols)]
         \o ConcatRows(Tail(frames), cols)

\* pd.concat(frames, ignore_index=True) of a non-empty list
concat(frames) ==
    LET cols == UnionColumns(frames, <<>>)
        rows == ConcatRows(frames, cols)
    IN  [columns |-> cols,
         dtypes  |-> [c \in DOMAIN cols |-> ConcatDtype(frames, cols[c])],
         rows    |-> [r \in DOMAIN rows |-> [rows[r] EXCEPT !.idx = r - 1]]]

RECURSIVE AllChunks(_, _)
\* combined_data after the outer loop has run over files f.. of the upload
AllChunks(files, f) ==
    IF f > Len(files) THEN <<>>
    ELSE process_file(files[f], f) \o AllChunks(files, f + 1)

\* load_and_combine_data(uploaded_files), for a non-empty upload
load_and_combine_data(files) == concat(AllChunks(files, 1))

\* ------------------------------------------------------------- input domains
\* Raw header lines of an uploaded CSV. No header holds two names that are
\* equal after the script's strip and rename.
Headers ==
    { <<Name("x")>>,
      <<Name("x"), <<SP, "label", SP>>>>,
      <<Name("Class")>>,
      <<Name("Label")>>,
      <<Name("label"), Name("Class")>> }

NumCells == {Num(1), Num(3), NaN, Inf, NegInf}
AllCells == NumCells \cup {Str("attack"), Str("dos")}

CellsFor(rawname) ==
    IF Strip(rawname) = Name("x") THEN NumCells
    ELSE IF Strip(rawname) = Name("Class") THEN {Str("dos"), NaN}
    ELSE {Str("attack"), NaN}

RowsFor(header) ==
    {row \in [DOMAIN header -> AllCells] :
        \A c \in DOMAIN header : row[c] \in CellsFor(header[c])}

\* the CSV files of exactly n data rows
FilesOf(n) ==
    UNION {{[columns |-> h, rows |-> rs] : rs \in [1..n -> RowsFor(h)]} : h \in Headers}

NoTable == [columns |-> <<>>, dtypes |-> <<>>, rows |-> <<>>]

\* ------------------------------------------------------------------- state
VARIABLES
    uploaded_files,   \* the uploaded CSV files, in upload order
    combined_chunks,  \* load_and_combine_data: the accumulator list (its combined_data)
    batch,            \* load_and_combine_data: the returned table
    load_pc,          \* "loop" | "returned" | "raised"
    hmv_data,         \* optimize_memory_usage / handle_missing_values: data
    hmv_pc,           \* the next line of the two functions to run
    hmv_done,         \* the operations already applied to data (history)
    display,          \* what the page shows: a sequence of [kind, text]
    groq_input,       \* predict_with_groq: input_data
    groq_response,    \* predict_with_groq: response.json(), a dict
    groq_result,      \* predict_with_groq: what the call returned or raised
    groq_pc,          \* "post" | "parse" | "done"
    slider,           \* main: the value kept by the estimator slider widget
    clicked,          \* main: TRUE in the run started by 'Detect Anomalies'
    widgets,          \* main: the widgets the current run has put on the page
    run,              \* main: the number of the current script run (history)
    ui_pc,            \* main: "idle" between runs, else the next line to run
    combined_data,    \* main: combined_data
    X_scaled,         \* preprocess_data: X_scaled, before the split
    split,            \* main: X_train, X_test, y_train, y_test
    model,            \* main: model
    anomaly_detector, \* main: anomaly_detector
    report,           \* main: what evaluate_model reported
    suspicious        \* main: suspicious

loadVars == <<uploaded_files, combined_chunks, batch, load_pc>>
hmvVars == <<hmv_data, hmv_pc, hmv_done>>
groqVars == <<groq_input, groq_response, groq_result, groq_pc>>
uiVars == <<slider, clicked, widgets, run, ui_pc, combined_data, X_scaled, split,
            model, anomaly_detector, report, suspicious>>
vars == <<loadVars, hmvVars, display, groqVars, uiVars>>

NoSplit == [X_train |-> {}, X_test |-> <<>>, y_train |-> <<>>, y_test |-> <<>>]
NoFit == [run |-> 0, fit |-> <<>>]
NoReport == [run |-> 0, model |-> NoFit, X_test |-> <<>>, y_test |-> <<>>]
\* the locals of main() before any of them is bound
LocalsUnbound ==
    /\ combined_data = NoTable /\ X_scaled = <<>> /\ split = NoSplit
    /\ model = NoFit /\ anomaly_detector = NoFit /\ report = NoReport
    /\ suspicious = NoTable
UiOff ==
    /\ slider = 0 /\ clicked = FALSE /\ widgets = {} /\ run = 0 /\ ui_pc = "off"
    /\ LocalsUnbound

NoDict == <<>>
NoResult == [kind |-> "none", value |-> ""]
GroqOff == groq_input = "" /\ groq_response = NoDict /\ groq_result = NoResult /\ groq_pc = "off"

LabelNotFound == [kind |-> "error", text |-> "Label column not found in the dataset."]

RECURSIVE SumLen(_)
SumLen(files) == IF files = <<>> THEN 0 ELSE Len(Head(files).rows) + SumLen(Tail(files))

\* ------------------------------------------- load_and_combine_data, by steps
\* The uploaded files are streams: a file's content is drawn when the loop
\* reaches it.
InitLoad ==
    /\ uploaded_files = <<>>
    /\ combined_chunks = <<>>
    /\ batch = NoTable
    /\ load_pc = "loop"
    /\ hmv_data = NoTable /\ hmv_pc = "off" /\ hmv_done = {}
    /\ display = <<>>
    /\ GroqOff
    /\ UiOff

\* one iteration of the outer loop (lines 42-55): every chunk of the next file
LoadFile ==
    /\ load_pc = "loop"
    /\ Len(uploaded_files) < MaxFiles
    /\ \E n \in 1..(MaxRows - SumLen(uploaded_files)) : \E file \in FilesOf(n) :
        /\ uploaded_files' = Append(uploaded_files, file)
        /\ combined_chunks' =
              combined_chunks \o process_file(file, Len(uploaded_files) + 1)
    /\ UNCHANGED <<batch, load_pc, hmvVars, display, groqVars, uiVars>>

\* line 57 after the last file
LoadReturn ==
    /\ load_pc = "loop"
    /\ combined_chunks # <<>>
    /\ batch' = concat(combined_chunks)
    /\ load_pc' = "returned"
    /\ UNCHANGED <<uploaded_files, combined_chunks, hmvVars, display, groqVars, uiVars>>

\* line 57 on an empty upload: pd.concat raises (no objects to concatenate)
LoadRaise ==
    /\ load_pc = "loop"
    /\ combined_chunks = <<>>
    /\ load_pc' = "raised"
    /\ UNCHANGED <<uploaded_files, combined_chunks, batch, hmvVars, display, groqVars, uiVars>>

NextLoad == LoadFile \/ LoadReturn \/ LoadRaise

SpecLoad == InitLoad /\ [][NextLoad]_vars

\* ------------------------------------------------ the upload, as it was read
\* position in a file's header of the column that carries the labels of the
\* upload ('label', else 'Class', else 'Label', names stripped), 0 when none
OrigLabelPos(file) ==
    LET names == [c \in DOMAIN file.columns |-> Strip(file.columns[c])]
        pos(nm) == CHOOSE c \in DOMAIN names : names[c] = nm
    IN  IF Name("label") \in Range(names) THEN pos(Name("label"))
        ELSE IF Name("Class") \in Range(names) THEN pos(Name("Class"))
        ELSE IF LABEL \in Range(names) THEN pos(LABEL)
        ELSE 0

\* TRUE when row i of file f came with a label column whose cell is empty
OrigLabelMissing(f, i) ==
    /\ OrigLabelPos(uploaded_files[f]) # 0
    /\ IsMissing(uploaded_files[f].rows[i][OrigLabelPos(uploaded_files[f])])

RECURSIVE SrcFrom(_, _)
\* every <<file, row>> of the upload from file f on, in upload and file order
SrcFrom(files, f) ==
    IF f > Len(files) THEN <<>>
    ELSE [i \in DOMAIN files[f].rows |-> <<f, i>>] \o SrcFrom(files, f + 1)

AllSrc == SrcFrom(uploaded_files, 1)

\* the chunk of file f that holds row i, as read and after lines 45-52
SrcChunk(f, i) ==
    LET lo == ((i - 1) \div ChunkSize) * ChunkSize + 1
        hi == Min(lo + ChunkSize - 1, Len(uploaded_files[f].rows))
    IN  normalize_label(strip_columns(ReadChunk(uploaded_files[f], f, lo, hi)))

\* the cell row i of file f had in the column that ends up called nm
\* (NaN when the file has no such column)
SrcCell(f, i, nm) ==
    LET ch == SrcChunk(f, i)
    IN  IF HasColumn(ch, nm) /\ ColPos(ch, nm) <= Len(uploaded_files[f].columns)
        THEN uploaded_files[f].rows[i][ColPos(ch, nm)]
        ELSE NaN

NumericColumns(df) == {c \in DOMAIN df.columns : IsNumeric(df.dtypes[c])}

C2_NoMissingNumeric ==
    load_pc = "returned" =>
        \A r \in DOMAIN batch.rows : \A c \in NumericColumns(batch) :
            LET f  == batch.rows[r].src[1]
                i  == batch.rows[r].src[2]
                nm == batch.columns[c]
                ch == replace_inf(check_label(SrcChunk(f, i)))
            IN  /\ ~IsMissing(batch.rows[r].cells[c])
                /\ (IsMissing(SrcCell(f, i, nm)) \/ IsInfinite(SrcCell(f, i, nm))) =>
                      /\ HasColumn(ch, nm)
                      /\ batch.rows[r].cells[c] = median(ColumnCells(ch, nm))

\* C3: a label that came with the upload (under 'label', 'Class' or 'Label')
\* is the row's 'Label' in the batch, 'normal' is the label only of rows that
\* came without a label column, and a row read with an empty label is dropped.
C3_UploadedLabelKept ==
    load_pc = "returned" =>
        /\ \A r \in DOMAIN batch.rows :
            LET f == batch.rows[r].src[1]
                i == batch.rows[r].src[2]
                p == OrigLabelPos(uploaded_files[f])
            IN  At(batch, r, LABEL) =
                    IF p = 0 THEN Str("normal") ELSE uploaded_files[f].rows[i][p]
        /\ \A k \in DOMAIN AllSrc :
            OrigLabelMissing(AllSrc[k][1], AllSrc[k][2]) =>
                \A r \in DOMAIN batch.rows : batch.rows[r].src # AllSrc[k]

\* C9: the batch is exactly the rows read with a label that is not missing,
\* each once, in upload, chunk and row order, indexed 0..N-1.
C9_LabelledRowsInOrder ==
    load_pc = "returned" =>
        /\ [r \in DOMAIN batch.rows |-> batch.rows[r].src] =
              Pick(AllSrc, {k \in DOMAIN AllSrc :
                              ~OrigLabelMissing(AllSrc[k][1], AllSrc[k][2])})
        /\ \A r \in DOMAIN batch.rows : batch.rows[r].idx = r - 1

\* ------------------------------- optimize_memory_usage(data), line by line
\* The tables the function may be handed: with and without a 'Label' column.
HmvHeaders == { <<Name("x")>>, <<Name("x"), LABEL>> }

HmvTables ==
    UNION {{ReadChunk([columns |-> h, rows |-> rs], 1, 1, n) :
              rs \in [1..n -> RowsFor(h)]} : h \in HmvHeaders, n \in 1..MaxRows}

InitHmv ==
    /\ uploaded_files = <<>> /\ combined_chunks = <<>> /\ batch = NoTable
    /\ load_pc = "off"
    /\ hmv_data \in HmvTables
    /\ hmv_pc = "line16"
    /\ hmv_done = {}
    /\ display = <<>>
    /\ GroqOff
    /\ UiOff

\* lines 16-19: drop the rows without a label, or report that there is no
\* 'Label' column; control reaches line 21 on both branches
HmvCheckLabel ==
    /\ hmv_pc = "line16"
    /\ hmv_data' = check_label(hmv_data)
    /\ display' = IF label_missing(hmv_data) THEN Append(display, LabelNotFound)
                  ELSE display
    /\ hmv_done' = IF label_missing(hmv_data) THEN hmv_done
                   ELSE hmv_done \cup {"dropna"}
    /\ hmv_pc' = "line21"
    /\ UNCHANGED <<loadVars, groqVars, uiVars>>

\* line 21
HmvReplaceInf ==
    /\ hmv_pc = "line21"
    /\ hmv_data' = replace_inf(hmv_data)
    /\ hmv_done' = hmv_done \cup {"replace_inf"}
    /\ hmv_pc' = "line22"
    /\ UNCHANGED <<loadVars, display, groqVars, uiVars>>

\* lines 22-25
HmvFillna ==
    /\ hmv_pc = "line22"
    /\ hmv_data' = fillna_median(hmv_data)
    /\ hmv_done' = hmv_done \cup {"fillna_median"}
    /\ hmv_pc' = "line31"
    /\ UNCHANGED <<loadVars, display, groqVars, uiVars>>

\* lines 31-32, back in optimize_memory_usage
OmuDowncast ==
    /\ hmv_pc = "line31"
    /\ hmv_data' = downcast_float(hmv_data)
    /\ hmv_done' = hmv_done \cup {"downcast"}
    /\ hmv_pc' = "line34"
    /\ UNCHANGED <<loadVars, display, groqVars, uiVars>>

\* lines 34-37
OmuCategory ==
    /\ hmv_pc = "line34"
    /\ hmv_data' = to_category(hmv_data)
    /\ hmv_done' = hmv_done \cup {"category"}
    /\ hmv_pc' = "returned"
    /\ UNCHANGED <<loadVars, display, groqVars, uiVars>>

NextHmv == HmvCheckLabel \/ HmvReplaceInf \/ HmvFillna \/ OmuDowncast \/ OmuCategory

SpecHmv == InitHmv /\ [][NextHmv]_vars

\* C4: once the missing 'Label' column has been reported, nothing more is
\* done to that batch: no infinity replacement, median fill or downcast.
C4_StopsAfterLabelError ==
    (\E i \in DOMAIN display : display[i] = LabelNotFound) => hmv_done = {}

\* ---------------------------------------------------------- predict_with_groq
\* A JSON object (Python dict) is a function on the keys it holds.
MaxChoices == 2

\* dict.get(key, default)
Get(d, key, default) == IF key \in DOMAIN d THEN d[key] ELSE default

Texts == {"", "benign", "port scan"}

\* the objects an element of "choices" may be: with or without "text"
ChoiceObjects ==
    {[key \in ks |-> IF key = "text" THEN t ELSE "stop"] :
        ks \in SUBSET {"text", "finish_reason"}, t \in Texts}

\* the JSON objects the completion service may answer with
Responses ==
    {NoDict, [key \in {"error"} |-> <<>>]}
    \cup UNION {{[key \in {"choices"} |-> cs] : cs \in [1..n -> ChoiceObjects]} :
                  n \in 0..MaxChoices}

Returned(v) == [kind |-> "return", value |-> v]
Raised(e) == [kind |-> "raise", value |-> e]

\* line 117: response.json().get("choices", [{}])[0].get("text", "No response")
first_choice_text(json) ==
    LET choices == Get(json, "choices", <<NoDict>>)
    IN  IF Len(choices) = 0 THEN Raised("IndexError")
        ELSE Returned(Get(choices[1], "text", "No response"))

InitGroq ==
    /\ uploaded_files = <<>> /\ combined_chunks = <<>> /\ batch = NoTable
    /\ load_pc = "off"
    /\ hmv_data = NoTable /\ hmv_pc = "off" /\ hmv_done = {}
    /\ display = <<>>
    /\ groq_input \in {"duration=1", "duration=3"}
    /\ groq_response = NoDict
    /\ groq_result = NoResult
    /\ groq_pc = "post"
    /\ UiOff

\* line 116: the request is sent and the service answers
GroqPost ==
    /\ groq_pc = "post"
    /\ UiOff
    /\ groq_response' \in Responses
    /\ groq_pc' = "parse"
    /\ UNCHANGED <<loadVars, hmvVars, display, groq_input, groq_result, uiVars>>

\* line 117
GroqParse ==
    /\ groq_pc = "parse"
    /\ groq_result' = first_choice_text(groq_response)
    /\ groq_pc' = "done"
    /\ UNCHANGED <<loadVars, hmvVars, display, groq_input, groq_response, uiVars>>

NextGroq == GroqPost \/ GroqParse

SpecGroq == InitGroq /\ [][NextGroq]_vars

\* C8: the call returns the text of the first choice when the answer has one
\* and 'No response' when it has none ('choices' absent or empty, or a first
\* choice without 'text'); it does not raise.
C8_TextOrFallback ==
    groq_pc = "done" =>
        groq_result =
            Returned(IF /\ "choices" \in DOMAIN groq_response
                        /\ Len(groq_response["choices"]) > 0
                        /\ "text" \in DOMAIN groq_response["choices"][1]
                     THEN groq_response["choices"][1]["text"]
                     ELSE "No response")

\* ------------------------------------------------------------ preprocess_data
NoneCell == [k |-> "none", v |-> 0, s |-> ""]

ANOMALY_PREDICTION == Name("Anomaly Prediction")

\* the label strings in the order np.unique sorts them
LabelOrder == <<"attack", "dos", "normal">>
SortsBefore(a, b) ==
    \E i, j \in DOMAIN LabelOrder : LabelOrder[i] = a /\ LabelOrder[j] = b /\ i < j

\* le.fit_transform(data['Label']): the code of each row's label, the classes
\* numbered from 0 in sorted order
fit_transform(labels) ==
    LET classes == {labels[r].s : r \in DOMAIN labels}
    IN  [r \in DOMAIN labels |->
            Cardinality({c \in classes : SortsBefore(c, labels[r].s)})]

\* data.drop(columns=names, inplace=True, errors='ignore')
drop_columns(data, names) ==
    LET keep == {c \in DOMAIN data.columns : data.columns[c] \notin names}
    IN  [columns |-> Pick(data.columns, keep),
         dtypes  |-> Pick(data.dtypes, keep),
         rows    |-> [r \in DOMAIN data.rows |->
                        [data.rows[r] EXCEPT !.cells = Pick(data.rows[r].cells, keep)]]]

\* lines 61-67: what preprocess_data does to the caller's table in place
encode_and_drop(data) ==
    LET codes == fit_transform(ColumnCells(data, LABEL))
        p == ColPos(data, LABEL)
        enc == [data EXCEPT
                  !.dtypes = [data.dtypes EXCEPT ![p] = "int64"],
                  !.rows = [r \in DOMAIN data.rows |->
                      [data.rows[r] EXCEPT !.cells[p] = Num(codes[r])]]]
    IN  drop_columns(enc, {Name("Timestamp"), Name("ID")})

RECURSIVE SumSeq(_)
SumSeq(q) == IF q = <<>> THEN 0 ELSE Head(q) + SumSeq(Tail(q))

\* lines 69-76: X_scaled, one entry per row of data, in row order. The uploads
\* of this model carry numeric features only, which get_dummies leaves alone.
\* The scaler centres every column on its mean: z holds n*x - sum(x), the
\* centred value times the row count; the division by the column's standard
\* deviation is left out. row is the position of the row in data (history).
scaled_features(data) ==
    LET X == drop_columns(data, {LABEL})
        n == Len(X.rows)
        total(c) == SumSeq([r \in DOMAIN X.rows |-> X.rows[r].cells[c].v])
    IN  [r \in DOMAIN X.rows |->
            [row |-> r,
             z |-> [c \in DOMAIN X.columns |-> n * X.rows[r].cells[c].v - total(c)]]]

\* test_size=0.2 as the fraction 1/TestDenominator
TestDenominator == 5
\* ceil(test_size * n)
n_test(n) == (n + TestDenominator - 1) \div TestDenominator
n_train(n) == n - n_test(n)

ClassCount(y, c) == Cardinality({r \in DOMAIN y : y[r] = c})
Classes(y) == {y[r] : r \in DOMAIN y}

\* train_test_split(..., stratify=y) raises ValueError: an empty train set, a
\* class with one member, or fewer test or train rows than classes
split_raises(y) ==
    LET n == Len(y)
    IN  \/ n_train(n) = 0
        \/ \E c \in Classes(y) : ClassCount(y, c) < 2
        \/ n_test(n) < Cardinality(Classes(y))
        \/ n_train(n) < Cardinality(Classes(y))

IsInjective(q) == \A i, j \in DOMAIN q : i # j => q[i] # q[j]

\* The partitions train_test_split(test_size=0.2, random_state=42, stratify=y)
\* may return: the seeded shuffle is not computed, any shuffled order of any
\* stratified choice of n_test rows is a test partition. Every class keeps in
\* train its share of n_train rounded down or up. test is the sequence of
\* positions (in the table) of the rows of X_test, train the set of the others.
Splits(y) ==
    LET n == Len(y)
    IN  {[test |-> t, train |-> (1..n) \ Range(t)] :
            t \in {q \in [1..n_test(n) -> 1..n] :
                    /\ IsInjective(q)
                    /\ \A c \in Classes(y) :
                        LET kept == ClassCount(y, c)
                                      - Cardinality({i \in DOMAIN q : y[q[i]] = c})
                        IN  /\ kept * n > ClassCount(y, c) * n_train(n) - n
                            /\ kept * n < ClassCount(y, c) * n_train(n) + n}}

\* ------------------------------------------------------------------- training
\* the estimator slider of line 134: min, max, default, step
SliderMin == 50
SliderMax == 300
SliderDefault == 100
SliderStep == 50
SliderValues == {v \in SliderMin..SliderMax : (v - SliderMin) % SliderStep = 0}

\* train_model with the n_estimators argument not passed on to the classifier
\* (the classifier's own default is used)
train_model_default_estimators(X_train, y_train, n_estimators) ==
    [n_estimators |-> SliderDefault, X |-> X_train, y |-> y_train]

\* train_model: the fitted classifier, as what it was fitted with
train_model(X_train, y_train, n_estimators) ==
    [n_estimators |-> n_estimators, X |-> X_train, y |-> y_train]

\* train_anomaly_detector: the fitted IsolationForest is a function from
\* feature vectors to -1 | 1 that the model does not compute; outliers is the
\* set of the vectors it scores -1, any set of the vectors of X_all
Detectors(X_train, X_all) ==
    {[X |-> X_train, outliers |-> o] : o \in SUBSET {X_all[r].z : r \in DOMAIN X_all}}

\* anomaly_detector.predict(X): the verdict of each row of X
predict(detector, X) ==
    [i \in DOMAIN X |-> IF X[i].z \in detector.outliers THEN -1 ELSE 1]

\* ------------------------------------------------------------ lines 144-156
\* np.where(anomaly_predictions == -1, "Anomaly", "Normal")
map_predictions(preds) ==
    [i \in DOMAIN preds |-> IF preds[i] = -1 THEN Str("Anomaly") ELSE Str("Normal")]

\* the padding of line 147 with "Normal" in the place of None
anomaly_column_pad_normal(preds, n) ==
    preds \o [i \in 1..(n - Len(preds)) |-> Str("Normal")]

\* line 147: anomaly_predictions.tolist() + [None] * (n - len(anomaly_predictions))
anomaly_column(preds, n) ==
    preds \o [i \in 1..(n - Len(preds)) |-> NoneCell]

\* data[name] = cells, name a new column
add_column(data, name, cells) ==
    [columns |-> Append(data.columns, name),
     dtypes  |-> Append(data.dtypes, "object"),
     rows    |-> [r \in DOMAIN data.rows |->
                    [data.rows[r] EXCEPT !.cells = Append(data.rows[r].cells, cells[r])]]]

\* line 148: combined_data[combined_data['Anomaly Prediction'] == "Anomaly"]
suspicious_rows(data) ==
    [data EXCEPT !.rows =
        Pick(data.rows, {r \in DOMAIN data.rows :
                            At(data, r, ANOMALY_PREDICTION) = Str("Anomaly")})]

AlertError == [kind |-> "error", text |-> "ALERT: Suspicious activities detected!"]
AlertSuccess == [kind |-> "success", text |-> "No threats detected."]

\* lines 153-156 with the test of line 153 inverted
alert_inverted(flagged) ==
    IF flagged.rows = <<>> THEN AlertError ELSE AlertSuccess

\* lines 153-156
alert(flagged) ==
    IF flagged.rows # <<>> THEN AlertError ELSE AlertSuccess

\* ------------------------------------------------------------------- main()
\* Streamlit runs the script main() from its first line on every interaction
\* with a widget; the locals of a run do not outlive it, a widget keeps its
\* value between runs as long as every run puts it on the page.
MaxRuns == 4

\* CSV files a user may upload. Every chunk of every file has a finite value
\* in its feature column, so that no missing value reaches the models.
FileA ==
    [columns |-> <<Name("x")>>,
     rows |-> << <<Num(1)>>, <<Inf>>, <<Num(3)>> >>]
FileB ==
    [columns |-> <<Name("x"), <<SP, "label", SP>>>>,
     rows |-> << <<Num(1), Str("attack")>>, <<Num(3), Str("normal")>>,
                 <<Num(3), NaN>>,           <<Num(3), Str("attack")>>,
                 <<Num(1), Str("normal")>>, <<Num(1), Str("attack")>>,
                 <<Num(3), Str("normal")>> >>]
FileC ==
    [columns |-> <<Name("x"), Name("Class")>>,
     rows |-> << <<Num(1), Str("dos")>> >>]
UiFiles == {FileA, FileB, FileC}

\* what the file uploader may hold: up to MaxFiles different files, in order
Uploads ==
    UNION {{u \in [1..n -> UiFiles] : IsInjective(u)} : n \in 0..MaxFiles}

InitMain ==
    /\ uploaded_files = <<>> /\ combined_chunks = <<>> /\ batch = NoTable
    /\ load_pc = "off"
    /\ hmv_data = NoTable /\ hmv_pc = "off" /\ hmv_done = {}
    /\ display = <<>>
    /\ GroqOff
    /\ slider = SliderDefault /\ clicked = FALSE /\ widgets = {} /\ run = 1
    /\ ui_pc = "idle"
    /\ LocalsUnbound

\* a new run of the script: nothing is bound, the page is rebuilt
Rerun(byButton) ==
    /\ ui_pc = "idle"
    /\ run < MaxRuns
    /\ run' = run + 1
    /\ clicked' = byButton
    /\ ui_pc' = "line124"
    /\ widgets' = {}
    /\ display' = <<>>
    /\ combined_data' = NoTable /\ X_scaled' = <<>> /\ split' = NoSplit
    /\ model' = NoFit /\ anomaly_detector' = NoFit /\ report' = NoReport
    /\ suspicious' = NoTable
    /\ UNCHANGED <<combined_chunks, batch, load_pc, hmvVars, groqVars>>

\* the user changes the uploaded files
Upload ==
    /\ \E u \in Uploads : u # uploaded_files /\ uploaded_files' = u
    /\ Rerun(FALSE)
    /\ UNCHANGED slider

\* the user moves the estimator slider
MoveSlider ==
    /\ "slider" \in widgets
    /\ \E v \in SliderValues : v # slider /\ slider' = v
    /\ Rerun(FALSE)
    /\ UNCHANGED uploaded_files

\* the user presses 'Detect Anomalies'
PressButton ==
    /\ "button" \in widgets
    /\ Rerun(TRUE)
    /\ UNCHANGED <<uploaded_files, slider>>

staticVars == <<uploaded_files, combined_chunks, batch, load_pc, hmvVars, groqVars,
                clicked, run>>

\* line 126 with nothing uploaded: the run ends; the slider is not on the
\* page and its value is forgotten
MainNoFiles ==
    /\ ui_pc = "line124"
    /\ uploaded_files = <<>>
    /\ ui_pc' = "idle"
    /\ slider' = SliderDefault
    /\ UNCHANGED <<staticVars, widgets, display, combined_data, X_scaled, split,
                   model, anomaly_detector, report, suspicious>>

\* lines 126-129
MainLoad ==
    /\ ui_pc = "line124"
    /\ uploaded_files # <<>>
    /\ combined_data' = load_and_combine_data(uploaded_files)
    /\ ui_pc' = "line131"
    /\ UNCHANGED <<staticVars, slider, widgets, display, X_scaled, split,
                   model, anomaly_detector, report, suspicious>>

\* line 131 when train_test_split raises: the run ends with the exception on
\* the page, the slider is not put on the page
MainPreprocessRaises ==
    /\ ui_pc = "line131"
    /\ split_raises(fit_transform(ColumnCells(combined_data, LABEL)))
    /\ combined_data' = encode_and_drop(combined_data)
    /\ display' = Append(display, [kind |-> "exception", text |-> "ValueError"])
    /\ slider' = SliderDefault
    /\ ui_pc' = "idle"
    /\ UNCHANGED <<staticVars, widgets, X_scaled, split, model, anomaly_detector,
                   report, suspicious>>

\* line 131: preprocess_data(combined_data)
MainPreprocess ==
    /\ ui_pc = "line131"
    /\ LET y == fit_transform(ColumnCells(combined_data, LABEL))
           data == encode_and_drop(combined_data)
           X == scaled_features(data)
       IN  /\ ~split_raises(y)
           /\ combined_data' = data
           /\ X_scaled' = X
           /\ \E sp \in Splits(y) :
                split' = [X_train |-> {X[r] : r \in sp.train},
                          X_test  |-> [i \in DOMAIN sp.test |-> X[sp.test[i]]],
                          y_train |-> {<<r, y[r]>> : r \in sp.train},
                          y_test  |-> [i \in DOMAIN sp.test |-> <<sp.test[i], y[sp.test[i]]>>]]
    /\ ui_pc' = "line134"
    /\ UNCHANGED <<staticVars, slider, widgets, display, model, anomaly_detector,
                   report, suspicious>>

\* lines 133-138: the slider, then both models are fitted
MainTrain ==
    /\ ui_pc = "line134"
    /\ widgets' = widgets \cup {"slider"}
    /\ model' = [run |-> run, fit |-> train_model(split.X_train, split.y_train, slider)]
    /\ \E d \in Detectors(split.X_train, X_scaled) :
          anomaly_detector' = [run |-> run, fit |-> d]
    /\ ui_pc' = "line141"
    /\ UNCHANGED <<staticVars, slider, display, combined_data, X_scaled, split,
                   report, suspicious>>

\* lines 140-141: evaluate_model(model, X_test, y_test)
MainEvaluate ==
    /\ ui_pc = "line141"
    /\ report' = [run |-> run, model |-> model,
                  X_test |-> split.X_test, y_test |-> split.y_test]
    /\ ui_pc' = "line143"
    /\ UNCHANGED <<staticVars, slider, widgets, display, combined_data, X_scaled,
                   split, model, anomaly_detector, suspicious>>

\* line 143 in a run the button did not start
MainNoClick ==
    /\ ui_pc = "line143"
    /\ ~clicked
    /\ widgets' = widgets \cup {"button"}
    /\ ui_pc' = "idle"
    /\ UNCHANGED <<staticVars, slider, display, combined_data, X_scaled, split,
                   model, anomaly_detector, report, suspicious>>

\* lines 143-156 in the run the button started
MainDetect ==
    /\ ui_pc = "line143"
    /\ clicked
    /\ widgets' = widgets \cup {"button"}
    /\ LET anomaly_predictions ==
               map_predictions(predict(anomaly_detector.fit, split.X_test))
           data == add_column(combined_data, ANOMALY_PREDICTION,
                       anomaly_column(anomaly_predictions, Len(combined_data.rows)))
       IN  /\ combined_data' = data
           /\ suspicious' = suspicious_rows(data)
           /\ display' = Append(display, alert(suspicious_rows(data)))
    /\ ui_pc' = "idle"
    /\ UNCHANGED <<staticVars, slider, X_scaled, split, model, anomaly_detector, report>>

Next ==
    \/ Upload \/ MoveSlider \/ PressButton
    \/ MainNoFiles \/ MainLoad \/ MainPreprocessRaises \/ MainPreprocess
    \/ MainTrain \/ MainEvaluate \/ MainNoClick \/ MainDetect

Init == InitMain

Spec == Init /\ [][Next]_vars

\* ------------------------------------------------------------ claims on main()
\* the feature matrix of the files the uploader holds now
CurrentX == scaled_features(encode_and_drop(load_and_combine_data(uploaded_files)))

HasAlert(a) == \E i \in DOMAIN display : display[i] = a
RunFailed == \E i \in DOMAIN display : display[i].kind = "exception"

\* C5: the classifier behind the evaluation report and the anomaly detector
\* were fitted in the current run, on the train partition of the files now
\* uploaded and with the estimator count now selected; a finished run over an
\* upload that could be split has a report.
C5_FittedInCurrentRun ==
    /\ split # NoSplit =>
          /\ X_scaled = CurrentX
          /\ split.X_train \cup Range(split.X_test) = Range(X_scaled)
          /\ split.X_train \cap Range(split.X_test) = {}
    /\ model # NoFit =>
          /\ model.run = run
          /\ model.fit.n_estimators = slider
          /\ model.fit.X = split.X_train /\ split # NoSplit
          /\ model.fit.y = split.y_train
    /\ anomaly_detector # NoFit =>
          /\ anomaly_detector.run = run
          /\ anomaly_detector.fit.X = split.X_train /\ split # NoSplit
    /\ report # NoReport =>
          /\ report.run = run
          /\ report.model = model /\ model # NoFit
          /\ report.X_test = split.X_test
    /\ (ui_pc = "idle" /\ uploaded_files # <<>> /\ ~RunFailed) =>
          report # NoReport /\ anomaly_detector # NoFit

\* a finished run, started by moving the slider to 300, that has a report
C5_Witness ==
    /\ ui_pc = "idle"
    /\ run > 2
    /\ slider = SliderMax
    /\ report # NoReport
    /\ report.model.fit.n_estimators = SliderMax

\* the verdict the detector of the current run gives row i of X_test
TestVerdict(i) == predict(anomaly_detector.fit, split.X_test)[i]

\* C6: after 'Detect Anomalies' the 'Anomaly Prediction' column has one entry
\* per row of the combined batch: at position i within the test partition's
\* size 'Anomaly' if the i-th test prediction is -1 and 'Normal' otherwise,
\* and None at every later position.
C6_AnomalyColumn ==
    (ui_pc = "idle" /\ clicked /\ report # NoReport) =>
        /\ HasColumn(combined_data, ANOMALY_PREDICTION)
        /\ \A r \in DOMAIN combined_data.rows :
            /\ Len(combined_data.rows[r].cells) = Len(combined_data.columns)
            /\ At(combined_data, r, ANOMALY_PREDICTION) =
                  IF r <= Len(split.X_test)
                  THEN (IF TestVerdict(r) = -1 THEN Str("Anomaly") ELSE Str("Normal"))
                  ELSE NoneCell

\* a scored column that holds all three: 'Anomaly', 'Normal' and None
C6_Witness ==
    /\ ui_pc = "idle" /\ clicked
    /\ HasColumn(combined_data, ANOMALY_PREDICTION)
    /\ \A v \in {Str("Anomaly"), Str("Normal"), NoneCell} :
          \E r \in DOMAIN combined_data.rows :
              At(combined_data, r, ANOMALY_PREDICTION) = v

\* C7: a 'Detect Anomalies' run shows exactly one alert: the warning if and
\* only if the detector scored some test row -1, the success otherwise, and
\* no error for an empty flagged view.
C7_ExactlyOneAlert ==
    (ui_pc = "idle" /\ clicked /\ report # NoReport) =>
        /\ Cardinality({i \in DOMAIN display :
                          display[i] \in {AlertError, AlertSuccess}}) = 1
        /\ HasAlert(AlertError) <=> (\E i \in DOMAIN split.X_test : TestVerdict(i) = -1)
        /\ HasAlert(AlertSuccess) <=> (\A i \in DOMAIN split.X_test : TestVerdict(i) # -1)
        /\ ~RunFailed

\* a 'Detect Anomalies' run with an empty flagged view and the success alert
C7_Witness ==
    /\ ui_pc = "idle" /\ clicked
    /\ HasColumn(combined_data, ANOMALY_PREDICTION)
    /\ suspicious.rows = <<>>
    /\ HasAlert(AlertSuccess)

\* C10: the verdict stored at position i of the combined batch is the
\* detector's verdict for the batch's own i-th row; every row shown as
\* suspicious is a row the detector scores as an outlier.
C10_VerdictOfOwnRow ==
    (ui_pc = "idle" /\ clicked /\ HasColumn(combined_data, ANOMALY_PREDICTION)) =>
        \A r \in DOMAIN combined_data.rows :
            LET own == predict(anomaly_detector.fit, <<X_scaled[r]>>)[1]
                cell == At(combined_data, r, ANOMALY_PREDICTION)
            IN  /\ cell = Str("Anomaly") => own = -1
                /\ cell = Str("Normal") => own = 1

====
